---- MODULE Spec2Model ----
(***************************************************************************)
(* Billing event reconciliation and usage ledger of roomprintz.            *)
(*                                                                         *)
(* Two request handlers share one store:                                   *)
(*   - the stage-room route (app/api/stage-room/route.ts, the revision     *)
(*     that spends tokens): try_spend_tokens RPC, compositor call, refund  *)
(*     insert;                                                             *)
(*   - the Stripe webhook (supabase/functions/stripe-webhook/index.ts):    *)
(*     signature check, then one handler per event type.                   *)
(* Every await of a handler that touches the store or the provider is one  *)
(* step, so that concurrent requests interleave exactly at the awaits.     *)
(*                                                                         *)
(* The store's own code (the try_spend_tokens function and the unique      *)
(* index of token_ledger) is not part of the sources; it is modelled from  *)
(* the written contract (TrySpend, LedgerInsert).                          *)
(***************************************************************************)
EXTENDS Integers, FiniteSets, Sequences, Bags, TLC

(***************************************************************************)
(* Bounds                                                                  *)
(***************************************************************************)
MaxReqs == 2        \* concurrent stage-room requests
MaxHooks == 2       \* concurrent webhook deliveries
MaxProv == 3        \* states the provider's subscription goes through
MaxCalls == 3       \* requests to the top-up and checkout routes
PlanTokens == 3     \* monthly_tokens of the catalogued plan
TopupTokens == 2    \* tokens of the active top-up pack

(***************************************************************************)
(* Program constants                                                       *)
(***************************************************************************)
CostGemini3 == 2
CostGemini25 == 1
MsPerSecond == 1000

None == "none"

Users == {"u1", "u2"}
JobIds == {"a", "b"}
\* raw values of the modelVersion form field
ModelVersionRaw == {"gemini-3", "gemini-2.5", "bogus", None}

Kinds == {"monthly_grant", "topup", "spend", "refund"}

VARIABLES
    ledger,     \* token_ledger: bag of [user, kind, ext, delta]
    subs,       \* subscriptions: set of rows
    prov,       \* the provider's current subscription objects
    reqs,       \* stage-room requests: bag of those in flight or just answered
    hooks       \* webhook deliveries: bag of those in flight or just answered

vars == <<ledger, subs, prov, reqs, hooks>>

(***************************************************************************)
(* Ledger primitives                                                       *)
(***************************************************************************)
Entry(u, k, x, d) == [user |-> u, kind |-> k, ext |-> x, delta |-> d]

EntriesOf(led, u) == {e \in BagToSet(led) : e.user = u}

RECURSIVE SumDelta(_, _)
SumDelta(led, S) ==
    IF S = {} THEN 0
    ELSE LET e == CHOOSE x \in S : TRUE
         IN e.delta * CopiesIn(e, led) + SumDelta(led, S \ {e})

\* balance(customer) = sum of delta over the customer's entries
BalanceOf(led, u) == SumDelta(led, EntriesOf(led, u))

HasEntry(led, u, k, x) ==
    \E e \in BagToSet(led) : e.user = u /\ e.kind = k /\ e.ext = x

RECURSIVE SumCopies(_, _)
SumCopies(led, S) ==
    IF S = {} THEN 0
    ELSE LET e == CHOOSE x \in S : TRUE
         IN CopiesIn(e, led) + SumCopies(led, S \ {e})

\* number of entries stored under one idempotency key (user, kind, ext)
KeyCount(led, u, k, x) ==
    SumCopies(led, {e \in BagToSet(led) : e.user = u /\ e.kind = k /\ e.ext = x})

\* mutant: a table without the unique index
LedgerInsertNoIndex(led, e) == [error |-> None, ledger |-> led (+) SetToBag({e})]

\* the unique index on (user_id, kind, external_id): a second row under an
\* existing key is rejected with a duplicate-key error and nothing changes
LedgerInsert(led, e) ==
    IF HasEntry(led, e.user, e.kind, e.ext)
    THEN [error |-> "duplicate", ledger |-> led]
    ELSE [error |-> None, ledger |-> led (+) SetToBag({e})]

\* mutant: the spend is appended without looking at the balance
TrySpendUnchecked(led, u, cost, job) ==
    IF HasEntry(led, u, "spend", job)
    THEN [success |-> TRUE, balance |-> BalanceOf(led, u), ledger |-> led]
    ELSE [success |-> TRUE, balance |-> BalanceOf(led, u) - cost,
          ledger |-> led (+) SetToBag({Entry(u, "spend", job, 0 - cost)})]

\* mutant: a retried job id is charged again
TrySpendNoIdem(led, u, cost, job) ==
    IF BalanceOf(led, u) >= cost
    THEN [success |-> TRUE, balance |-> BalanceOf(led, u) - cost,
          ledger |-> led (+) SetToBag({Entry(u, "spend", job, 0 - cost)})]
    ELSE [success |-> FALSE, balance |-> BalanceOf(led, u), ledger |-> led]

\* mutant: the spend may overdraw the balance by one token
TrySpendOverdraft(led, u, cost, job) ==
    LET bal == BalanceOf(led, u)
    IN IF HasEntry(led, u, "spend", job)
       THEN [success |-> TRUE, balance |-> bal, ledger |-> led]
       ELSE IF bal + 1 >= cost
       THEN [success |-> TRUE, balance |-> bal - cost,
             ledger |-> led (+) SetToBag({Entry(u, "spend", job, 0 - cost)})]
       ELSE [success |-> FALSE, balance |-> bal, ledger |-> led]

\* mutant: the balance is read over the whole ledger, not the caller's rows
TrySpendAnyBalance(led, u, cost, job) ==
    LET all == SumDelta(led, BagToSet(led))
    IN IF HasEntry(led, u, "spend", job)
       THEN [success |-> TRUE, balance |-> all, ledger |-> led]
       ELSE IF all >= cost
       THEN [success |-> TRUE, balance |-> all - cost,
             ledger |-> led (+) SetToBag({Entry(u, "spend", job, 0 - cost)})]
       ELSE [success |-> FALSE, balance |-> all, ledger |-> led]

\* try_spend_tokens(p_cost, p_external_id, p_reason), run as the calling user:
\* one atomic unit that reads the balance and appends the spend
TrySpend(led, u, cost, job) ==
    LET bal == BalanceOf(led, u)
    IN IF HasEntry(led, u, "spend", job)
       THEN [success |-> TRUE, balance |-> bal, ledger |-> led]
       ELSE IF bal >= cost
       THEN [success |-> TRUE, balance |-> bal - cost,
             ledger |-> led (+) SetToBag({Entry(u, "spend", job, 0 - cost)})]
       ELSE [success |-> FALSE, balance |-> bal, ledger |-> led]

(***************************************************************************)
(* Stage-room route                                                        *)
(***************************************************************************)
\* mutant: an unspecified or invalid model version falls to the cheaper one
normalizedModelVersionCheap(raw) ==
    IF raw = "gemini-3" \/ raw = "gemini-2.5" THEN raw ELSE "gemini-2.5"

\* modelVersion form field, defaulting to gemini-3
normalizedModelVersion(raw) ==
    IF raw = "gemini-3" \/ raw = "gemini-2.5" THEN raw ELSE "gemini-3"

tokenCost(mv) == IF mv = "gemini-3" THEN CostGemini3 ELSE CostGemini25

\* mutant: the RPC's verdict is not looked at
spentOkAlways(spendRow) == TRUE

\* spentOk = !!spendRow?.success
spentOk(spendRow) == spendRow.success

\* mutant: a refused spend reports no balance
balanceAfterSpendZero(spendRow) == IF spendRow.success THEN spendRow.balance ELSE 0

\* balanceAfterSpend = spendRow.balance when it is a number
balanceAfterSpend(spendRow) == spendRow.balance

\* what the awaited compositor call can do: return an imageUrl, return a
\* result without one, or raise
CompositorOutcomes == {"url", "nourl", "throw"}

\* statuses of the checks that precede the spend (auth, form fields, 409 guard)
RejectStatuses == {401, 400, 409}

\* requests and deliveries carry no identity of their own: those in flight
\* form a bag, and an answered one stays in it until its place is taken
One(x) == SetToBag({x})

Vacate(b, max) ==
    (IF BagCardinality(b) < max THEN {b} ELSE {})
    \cup {b (-) One(d) : d \in {x \in BagToSet(b) : x.pc = "done"}}

Running(b, pc) == {x \in BagToSet(b) : x.pc = pc}

NewReq == [pc |-> "new", user |-> None, job |-> None, cost |-> 0,
           balance |-> 0, status |-> 0, error |-> None]

\* the response: its status, and the error or the tokenBalance of its body
RoomResp(st, bal, err) ==
    [NewReq EXCEPT !.pc = "done", !.status = st, !.balance = bal, !.error = err]

\* what the guards read of a request: the bearer token, the required form
\* field that is missing (if any), isContinuation, and what the jobs query
\* says of the room name
Forms ==
    [token : {None, "bad", "good"},
     missing : {None, "file", "jobId", "propertyId", "action"},
     isContinuation : BOOLEAN,
     room : {"free", "taken", "error"}]

\* the status of the first guard that turns the request away, 0 if none does
Guards(form) ==
    IF form.token # "good" THEN 401
    ELSE IF form.missing # None THEN 400
    ELSE IF ~form.isContinuation /\ form.room = "taken" THEN 409
    ELSE 0

\* mutant: the room-name guard runs after the spend
TurnedAwayAfterSpend(led, st) ==
    [ledger |-> IF st = 409
                THEN TrySpend(led, "u1", CostGemini25, "a").ledger ELSE led,
     req |-> RoomResp(st, 0, "rejected")]

\* the return of a guard: a response, and nothing else
TurnedAway(led, st) ==
    [ledger |-> led, req |-> RoomResp(st, 0, "rejected")]

\* a request turned away before the spend step, with the status of the guard
\* that some form runs into
StageRoomReject(base, st) ==
    /\ base \in Vacate(reqs, MaxReqs)
    /\ st \in {Guards(form) : form \in Forms} \ {0}
    /\ LET r == TurnedAway(ledger, st)
       IN ledger' = r.ledger /\ reqs' = base (+) One(r.req)
    /\ UNCHANGED <<subs, prov, hooks>>

\* mutant: an RPC call that errors is taken for a spend
SpendIgnoringError(led, u, job, raw, rpcFails) ==
    LET cost == tokenCost(normalizedModelVersion(raw))
        spendRow == TrySpend(led, u, cost, job)
        go == [NewReq EXCEPT !.pc = "compose", !.user = u, !.job = job,
                             !.cost = cost]
    IN IF rpcFails THEN [ledger |-> led, req |-> go]
       ELSE [ledger |-> spendRow.ledger,
             req |-> IF ~spentOk(spendRow)
                     THEN RoomResp(402, balanceAfterSpend(spendRow),
                                   "Insufficient tokens")
                     ELSE [go EXCEPT !.balance = balanceAfterSpend(spendRow)]]

\* checks passed: tokenCost is fixed, then the try_spend_tokens RPC; the
\* ledger it leaves and where the request stands after it
Spend(led, u, job, raw, rpcFails) ==
    LET cost == tokenCost(normalizedModelVersion(raw))
        spendRow == TrySpend(led, u, cost, job)
    IN IF rpcFails
       THEN [ledger |-> led, req |-> RoomResp(500, 0, "Token spend failed")]
       ELSE [ledger |-> spendRow.ledger,
             req |-> IF ~spentOk(spendRow)
                     THEN RoomResp(402, balanceAfterSpend(spendRow),
                                   "Insufficient tokens")
                     ELSE [NewReq EXCEPT !.pc = "compose", !.user = u, !.job = job,
                                         !.cost = cost,
                                         !.balance = balanceAfterSpend(spendRow)]]

StageRoomSpend(base, u, job, raw, rpcFails) ==
    /\ base \in Vacate(reqs, MaxReqs)
    /\ LET r == Spend(ledger, u, job, raw, rpcFails)
       IN ledger' = r.ledger /\ reqs' = base (+) One(r.req)
    /\ UNCHANGED <<subs, prov, hooks>>

\* the compositor call returns or raises; the balance the spend reported is
\* used by the 200 response alone
StageRoomCompose(q, outcome) ==
    /\ q \in Running(reqs, "compose")
    /\ reqs' = (reqs (-) One(q)) (+) One(
                  IF outcome = "url" THEN RoomResp(200, q.balance, None)
                  ELSE IF outcome = "throw" THEN RoomResp(500, 0, "unexpected")
                  ELSE [q EXCEPT !.pc = "refund", !.balance = 0])
    /\ UNCHANGED <<ledger, subs, prov, hooks>>

\* the row of the refund insert
RefundEntry(q) == Entry(q.user, "refund", q.job, q.cost)

\* mutant: the refund takes the job's spend entries out of the ledger
StageRoomRefundByDelete(q, storeFails) ==
    /\ q \in Running(reqs, "refund")
    /\ ledger' = IF storeFails THEN ledger
                 ELSE ledger (-) SetToBag({e \in BagToSet(ledger) :
                                             /\ e.user = q.user /\ e.kind = "spend"
                                             /\ e.ext = q.job})
    /\ reqs' = (reqs (-) One(q)) (+) One(RoomResp(500, 0, "no imageUrl"))
    /\ UNCHANGED <<subs, prov, hooks>>

\* refund insert on a result without imageUrl; its error is only logged
StageRoomRefund(q, storeFails) ==
    /\ q \in Running(reqs, "refund")
    /\ ledger' = IF storeFails THEN ledger
                 ELSE LedgerInsert(ledger, RefundEntry(q)).ledger
    /\ reqs' = (reqs (-) One(q)) (+) One(RoomResp(500, 0, "no imageUrl"))
    /\ UNCHANGED <<subs, prov, hooks>>

(***************************************************************************)
(* Catalog and subscriptions table                                         *)
(***************************************************************************)
Plans == {[id |-> "pro", stripe_price_id |-> "price_pro", monthly_tokens |-> PlanTokens]}

Topups == {[stripe_price_id |-> "price_pack", tokens |-> TopupTokens, is_active |-> TRUE],
           [stripe_price_id |-> "price_old", tokens |-> TopupTokens + 1, is_active |-> FALSE]}

NoPlan == [id |-> None, stripe_price_id |-> None, monthly_tokens |-> 0]
NoTopup == [stripe_price_id |-> None, tokens |-> 0, is_active |-> FALSE]

\* mutant: a price without a plan is given the catalog's plan
getPlanByPriceIdDefault(priceId) == CHOOSE p \in Plans : TRUE

getPlanByPriceId(priceId) ==
    IF priceId = None THEN NoPlan
    ELSE LET rows == {p \in Plans : p.stripe_price_id = priceId}
         IN IF rows = {} THEN NoPlan ELSE CHOOSE p \in rows : TRUE

getTopupByPriceId(priceId) ==
    IF priceId = None THEN NoTopup
    ELSE LET rows == {t \in Topups : t.stripe_price_id = priceId /\ t.is_active}
         IN IF rows = {} THEN NoTopup ELSE CHOOSE t \in rows : TRUE

getUserIdFromMetadata(obj) == obj.meta

\* seconds -> ISO timestamp, null for a missing or zero value
unixToIso(seconds) == IF seconds = 0 THEN 0 ELSE seconds * MsPerSecond

\* mutant: no error counts as a duplicate
isDuplicateInsertNever(err) == FALSE

\* store errors whose message contains "duplicate" or "unique": the violation
\* of the ledger's key ("duplicate") and of any other unique constraint of the
\* table ("duplicate_other") both read
\* 'duplicate key value violates unique constraint "<name>"'
UniqueViolations == {"duplicate", "duplicate_other"}

\* duplicate-key errors are the ones whose message says "duplicate" or "unique"
isDuplicateInsert(err) == err \in UniqueViolations

NewRow(u) == [user_id |-> u, stripe_customer_id |-> None,
              stripe_subscription_id |-> None, status |-> None,
              plan_id |-> None, current_period_end |-> 0]

\* mutant: the row is replaced, columns the patch does not name are reset
UpsertReplacing(S, patch) ==
    LET old == {row \in S : row.user_id = patch.user_id}
        base == NewRow(patch.user_id)
        new == [f \in DOMAIN base |->
                   IF f \in DOMAIN patch THEN patch[f] ELSE base[f]]
    IN (S \ old) \cup {new}

\* from("subscriptions").upsert(patch): insert, or on a user_id conflict update
\* the columns the patch names
Upsert(S, patch) ==
    LET old == {row \in S : row.user_id = patch.user_id}
        base == IF old = {} THEN NewRow(patch.user_id) ELSE CHOOSE row \in old : TRUE
        new == [f \in DOMAIN base |->
                   IF f \in DOMAIN patch THEN patch[f] ELSE base[f]]
    IN (S \ old) \cup {new}

\* from("subscriptions").update({status}).eq("user_id", u)
UpdateStatus(S, u, st) ==
    {IF row.user_id = u THEN [row EXCEPT !.status = st] ELSE row : row \in S}

RowsByCustomer(S, cust) == {row \in S : row.stripe_customer_id = cust}

(***************************************************************************)
(* Provider: subscription sub1 (customer cus1, user u1, catalogued price)  *)
(* moves through a bounded history; sub2 (customer cus2, no metadata,      *)
(* uncatalogued price) is fixed.                                           *)
(***************************************************************************)
NoSub == [id |-> None, customer |-> None, meta |-> None, price |-> None,
          status |-> None, end |-> 0]

Sub1At(snap) == [id |-> "sub1", customer |-> "cus1", meta |-> "u1",
                 price |-> "price_pro", status |-> snap.status, end |-> snap.end]

Sub2 == [id |-> "sub2", customer |-> "cus2", meta |-> None,
         price |-> "price_x", status |-> "active", end |-> 1]

\* stripe.subscriptions.retrieve(id): the subscription as it is now
RetrieveSub(id) == IF id = "sub1" THEN Sub1At(prov[Len(prov)]) ELSE Sub2

ProviderStep ==
    /\ Len(prov) < MaxProv
    /\ LET cur == prov[Len(prov)]
       IN \E nxt \in {[status |-> "active", end |-> cur.end + 1],
                      [status |-> "past_due", end |-> cur.end],
                      [status |-> "canceled", end |-> cur.end]} :
             /\ cur.status # "canceled"
             /\ nxt.status = "past_due" => cur.status = "active"
             /\ prov' = Append(prov, nxt)
    /\ UNCHANGED <<ledger, subs, reqs, hooks>>

(***************************************************************************)
(* Events the provider can deliver                                         *)
(***************************************************************************)
NoEvent == [type |-> None, id |-> None, mode |-> None, meta |-> None,
            customer |-> None, subscription |-> None, price |-> None, obj |-> NoSub]

CheckoutEvent(id, mode, meta, cust, sub, price) ==
    [NoEvent EXCEPT !.type = "checkout.session.completed", !.id = id, !.mode = mode,
                    !.meta = meta, !.customer = cust, !.subscription = sub,
                    !.price = price]

CheckoutEvents ==
    {CheckoutEvent("cs_pack", "payment", "u1", "cus1", None, "price_pack"),
     CheckoutEvent("cs_old", "payment", "u1", "cus1", None, "price_old"),
     CheckoutEvent("cs_anon", "payment", None, "cus1", None, "price_pack"),
     CheckoutEvent("cs_pack2", "payment", "u2", "cus2", None, "price_pack"),
     CheckoutEvent("cs_sub1", "subscription", "u1", "cus1", "sub1", None),
     CheckoutEvent("cs_sub2", "subscription", "u2", "cus2", "sub2", None)}

SubscriptionEventTypes ==
    {"customer.subscription.created", "customer.subscription.updated",
     "customer.subscription.deleted"}

\* a subscription event carries the subscription as it was when emitted
SubscriptionEvents ==
    {[NoEvent EXCEPT !.type = IF i = 1 THEN "customer.subscription.created"
                              ELSE IF prov[i].status = "canceled"
                              THEN "customer.subscription.deleted"
                              ELSE "customer.subscription.updated",
                     !.id = "sub1", !.obj = Sub1At(prov[i])] : i \in 1..Len(prov)}
    \cup {[NoEvent EXCEPT !.type = "customer.subscription.created",
                          !.id = "sub2", !.obj = Sub2]}

InvoiceEvent(type, id, cust, sub) ==
    [NoEvent EXCEPT !.type = type, !.id = id, !.customer = cust, !.subscription = sub]

PaidEventTypes == {"invoice.paid", "invoice.payment_succeeded"}

PaidEvents ==
    {InvoiceEvent(t, "in_1", "cus1", s) : t \in PaidEventTypes, s \in {"sub1", None}}
    \cup {InvoiceEvent("invoice.paid", "in_2", "cus2", "sub2"),
          InvoiceEvent("invoice.paid", "in_3", None, "sub1")}

FailedEvents ==
    {InvoiceEvent("invoice.payment_failed", "in_4", "cus1", "sub1"),
     InvoiceEvent("invoice.payment_failed", "in_5", "cus2", "sub2"),
     InvoiceEvent("invoice.payment_failed", "in_6", "cus1", None)}

\* event types the switch has no case for
OtherEvents ==
    {[NoEvent EXCEPT !.type = "charge.refunded", !.id = "ch_1"],
     [NoEvent EXCEPT !.type = "invoice.finalized", !.id = "in_1",
                     !.customer = "cus1", !.subscription = "sub1"]}

\* mutant: every other invoice event is handled like a paid one
RouteInvoices(type) ==
    IF type = "checkout.session.completed" THEN "checkout"
    ELSE IF type \in SubscriptionEventTypes THEN "subscription"
    ELSE IF type = "invoice.payment_failed" THEN "failed"
    ELSE IF type \in PaidEventTypes \cup {"invoice.finalized"} THEN "paid"
    ELSE "ignore"

\* switch (event.type)
Route(type) ==
    IF type = "checkout.session.completed" THEN "checkout"
    ELSE IF type \in SubscriptionEventTypes THEN "subscription"
    ELSE IF type \in PaidEventTypes THEN "paid"
    ELSE IF type = "invoice.payment_failed" THEN "failed"
    ELSE "ignore"

(***************************************************************************)
(* Webhook handler.  Each step is an operator from what the step reads to  *)
(* what it writes and how the delivery goes on; the actions apply them.    *)
(***************************************************************************)
NewHook == [pc |-> "new", event |-> NoEvent,
            invoice |-> None, customer |-> None, user |-> None,
            subscriptionId |-> None, sub |-> NoSub, plan |-> NoPlan, status |-> 0]

HookResp(st) == [NewHook EXCEPT !.pc = "done", !.status = st]

\* 405 for a non-POST request, 400 for a missing or invalid signature
HookRejectStatuses == {405, 400}

Methods == {"POST", "GET"}
Signatures == {None, "bad", "good"}

\* mutant: a request without signature header is let through
GateOpen(method, sig) ==
    IF method # "POST" THEN 405
    ELSE IF sig = None THEN 0
    ELSE IF sig # "good" THEN 400
    ELSE 0

\* the checks before the event is looked at: the status they answer, 0 when
\* the request passes them
Gate(method, sig) ==
    IF method # "POST" THEN 405
    ELSE IF sig = None THEN 400
    ELSE IF sig # "good" THEN 400
    ELSE 0

\* what can go wrong with an insert besides the key violation the table
\* itself reports: nothing, a failure with some other message (connectivity),
\* or the violation of another unique constraint
InsertFaults == {None, "other", "duplicate_other"}

\* the insert's error as the handler sees it
InsertError(led, e, fault) ==
    IF fault # None THEN fault ELSE LedgerInsert(led, e).error

\* mutant: every insert error is thrown
ThrownAlways(ledgerErr) == ledgerErr # None

\* if (ledgerErr && !isDuplicateInsert(ledgerErr)) throw ledgerErr
Thrown(ledgerErr) == ledgerErr # None /\ ~isDuplicateInsert(ledgerErr)

\* mutant: the top-up is keyed by the price, not by the session
TopupEntryByPrice(userId, e, topup) ==
    Entry(userId, "topup", e.price, topup.tokens)

\* the row of the top-up grant, keyed by the checkout session id
TopupEntry(userId, e, topup) == Entry(userId, "topup", e.id, topup.tokens)

\* case "checkout.session.completed"; fault "other" stands for a failure of
\* any of the calls the branch makes
Checkout(led, S, e, fault) ==
    LET userId == getUserIdFromMetadata(e)
        topup == getTopupByPriceId(e.price)
        row == TopupEntry(userId, e, topup)
        same == [ledger |-> led, subs |-> S, status |-> 200]
    IN IF userId = None THEN same
       ELSE IF e.mode = "payment"
       THEN IF fault = "other" THEN [same EXCEPT !.status = 500]
            ELSE IF e.price = None THEN same
            ELSE IF topup = NoTopup THEN same
            ELSE [same EXCEPT !.ledger = IF fault # None THEN led
                                         ELSE LedgerInsert(led, row).ledger,
                              !.status = IF Thrown(InsertError(led, row, fault))
                                         THEN 500 ELSE 200]
       ELSE IF fault # None THEN [same EXCEPT !.status = 500]
       ELSE [same EXCEPT !.subs =
               Upsert(S, [user_id |-> userId,
                          stripe_customer_id |-> e.customer,
                          stripe_subscription_id |-> e.subscription,
                          status |-> "incomplete"])]

\* the row the subscription and invoice handlers upsert
SubscriptionRow(userId, customerId, sub, plan) ==
    [user_id |-> userId,
     stripe_customer_id |-> customerId,
     stripe_subscription_id |-> sub.id,
     status |-> sub.status,
     plan_id |-> plan.id,
     current_period_end |-> unixToIso(sub.end)]

\* mutant: a deleted subscription's row is removed
SubscriptionDeleting(S, e, storeFails) ==
    LET sub == e.obj
        userId == getUserIdFromMetadata(sub)
        plan == getPlanByPriceId(sub.price)
    IN IF userId = None THEN [subs |-> S, status |-> 200]
       ELSE IF storeFails THEN [subs |-> S, status |-> 500]
       ELSE IF e.type = "customer.subscription.deleted"
       THEN [subs |-> {row \in S : row.user_id # userId}, status |-> 200]
       ELSE [subs |-> Upsert(S, SubscriptionRow(userId, sub.customer, sub, plan)),
             status |-> 200]

\* case "customer.subscription.created" / "updated" / "deleted"
Subscription(S, e, storeFails) ==
    LET sub == e.obj
        userId == getUserIdFromMetadata(sub)
        plan == getPlanByPriceId(sub.price)
    IN IF userId = None THEN [subs |-> S, status |-> 200]
       ELSE IF storeFails THEN [subs |-> S, status |-> 500]
       ELSE [subs |-> Upsert(S, SubscriptionRow(userId, sub.customer, sub, plan)),
             status |-> 200]

\* case "invoice.paid" / "invoice.payment_succeeded": 1) find the user and the
\* stored subscription by customer id
InvoiceLookup(S, e, storeFails) ==
    LET rows == RowsByCustomer(S, e.customer)
        row == CHOOSE x \in rows : TRUE
        subscriptionId == IF e.subscription # None THEN e.subscription
                          ELSE row.stripe_subscription_id
    IN IF e.customer = None THEN HookResp(200)
       ELSE IF storeFails \/ Cardinality(rows) > 1 THEN HookResp(500)
       ELSE IF rows = {} THEN HookResp(200)
       ELSE IF subscriptionId = None THEN HookResp(200)
       ELSE [NewHook EXCEPT !.pc = "retrieve", !.invoice = e.id,
                            !.customer = e.customer, !.user = row.user_id,
                            !.subscriptionId = subscriptionId]

\* 2) retrieve the subscription from the provider, 3) map its price to a plan
InvoiceRetrieve(w, fails) ==
    LET sub == RetrieveSub(w.subscriptionId)
        plan == getPlanByPriceId(sub.price)
    IN IF fails THEN HookResp(500)
       ELSE IF sub.price = None \/ plan = NoPlan THEN HookResp(200)
       ELSE [w EXCEPT !.pc = "grant", !.sub = sub, !.plan = plan]

\* mutant: the grant is keyed by the subscription, not by the invoice
GrantEntryBySubscription(w) ==
    Entry(w.user, "monthly_grant", w.subscriptionId, w.plan.monthly_tokens)

\* the row of the monthly grant, keyed by the invoice id
GrantEntry(w) == Entry(w.user, "monthly_grant", w.invoice, w.plan.monthly_tokens)

\* mutant: a duplicate grant ends the delivery, the upsert is skipped
InvoiceGrantEndingOnDuplicate(led, w, fault) ==
    [ledger |-> IF fault # None THEN led ELSE LedgerInsert(led, GrantEntry(w)).ledger,
     hook |-> IF Thrown(InsertError(led, GrantEntry(w), fault)) THEN HookResp(500)
              ELSE IF InsertError(led, GrantEntry(w), fault) # None THEN HookResp(200)
              ELSE [w EXCEPT !.pc = "upsert"]]

\* 4) grant the plan's tokens
InvoiceGrant(led, w, fault) ==
    [ledger |-> IF fault # None THEN led ELSE LedgerInsert(led, GrantEntry(w)).ledger,
     hook |-> IF Thrown(InsertError(led, GrantEntry(w), fault))
              THEN HookResp(500) ELSE [w EXCEPT !.pc = "upsert"]]

\* 5) update the subscription state
InvoiceUpsert(S, w, storeFails) ==
    IF storeFails THEN [subs |-> S, status |-> 500]
    ELSE [subs |-> Upsert(S, SubscriptionRow(w.user, w.customer, w.sub, w.plan)),
          status |-> 200]

\* mutant: an invoice nobody is found for is given to the first user
resolveUserIdOrFirst(S, invoice, subscription) ==
    LET rows == RowsByCustomer(S, invoice.customer)
    IN IF invoice.customer # None /\ rows # {}
       THEN (CHOOSE x \in rows : TRUE).user_id
       ELSE IF getUserIdFromMetadata(subscription) # None
       THEN getUserIdFromMetadata(subscription)
       ELSE "u1"

\* resolveUserIdForInvoice: the stored mapping by customer id first, the
\* subscription's metadata second
resolveUserIdForInvoice(S, invoice, subscription) ==
    LET rows == RowsByCustomer(S, invoice.customer)
    IN IF invoice.customer # None /\ rows # {}
       THEN (CHOOSE x \in rows : TRUE).user_id
       ELSE getUserIdFromMetadata(subscription)

\* case "invoice.payment_failed": retrieve the subscription, resolve the user
FailedResolve(S, e, fails) ==
    LET sub == RetrieveSub(e.subscription)
        userId == resolveUserIdForInvoice(S, e, sub)
    IN IF e.subscription = None THEN HookResp(200)
       ELSE IF fails \/ Cardinality(RowsByCustomer(S, e.customer)) > 1
       THEN HookResp(500)
       ELSE IF userId = None THEN HookResp(200)
       ELSE [NewHook EXCEPT !.pc = "pastdue", !.user = userId]

\* update({ status: "past_due" }).eq("user_id", userId)
FailedUpdate(S, w, storeFails) ==
    IF storeFails THEN [subs |-> S, status |-> 500]
    ELSE [subs |-> UpdateStatus(S, w.user, "past_due"), status |-> 200]

\* a request from its arrival to the end of the signature check: the store it
\* leaves and the status it has answered by then, 0 when it goes on
Verify(led, S, method, sig) ==
    [ledger |-> led, subs |-> S, status |-> Gate(method, sig)]

HookReject(base, method, sig) ==
    /\ base \in Vacate(hooks, MaxHooks)
    /\ LET out == Verify(ledger, subs, method, sig)
       IN /\ out.status # 0
          /\ ledger' = out.ledger
          /\ subs' = out.subs
          /\ hooks' = base (+) One(HookResp(out.status))
    /\ UNCHANGED <<prov, reqs>>

HookCheckout(base, e, fault) ==
    /\ base \in Vacate(hooks, MaxHooks)
    /\ e \in CheckoutEvents
    /\ LET out == Checkout(ledger, subs, e, fault)
       IN /\ ledger' = out.ledger
          /\ subs' = out.subs
          /\ hooks' = base (+) One(HookResp(out.status))
    /\ UNCHANGED <<prov, reqs>>

HookSubscription(base, e, storeFails) ==
    /\ base \in Vacate(hooks, MaxHooks)
    /\ e \in SubscriptionEvents
    /\ LET out == Subscription(subs, e, storeFails)
       IN /\ subs' = out.subs
          /\ hooks' = base (+) One(HookResp(out.status))
    /\ UNCHANGED <<ledger, prov, reqs>>

HookInvoiceLookup(base, e, storeFails) ==
    /\ base \in Vacate(hooks, MaxHooks)
    /\ e \in PaidEvents
    /\ hooks' = base (+) One(InvoiceLookup(subs, e, storeFails))
    /\ UNCHANGED <<ledger, subs, prov, reqs>>

HookInvoiceRetrieve(w, fails) ==
    /\ w \in Running(hooks, "retrieve")
    /\ hooks' = (hooks (-) One(w)) (+) One(InvoiceRetrieve(w, fails))
    /\ UNCHANGED <<ledger, subs, prov, reqs>>

HookInvoiceGrant(w, fault) ==
    /\ w \in Running(hooks, "grant")
    /\ LET out == InvoiceGrant(ledger, w, fault)
       IN /\ ledger' = out.ledger
          /\ hooks' = (hooks (-) One(w)) (+) One(out.hook)
    /\ UNCHANGED <<subs, prov, reqs>>

HookInvoiceUpsert(w, storeFails) ==
    /\ w \in Running(hooks, "upsert")
    /\ LET out == InvoiceUpsert(subs, w, storeFails)
       IN /\ subs' = out.subs
          /\ hooks' = (hooks (-) One(w)) (+) One(HookResp(out.status))
    /\ UNCHANGED <<ledger, prov, reqs>>

HookFailedResolve(base, e, fails) ==
    /\ base \in Vacate(hooks, MaxHooks)
    /\ e \in FailedEvents
    /\ hooks' = base (+) One(FailedResolve(subs, e, fails))
    /\ UNCHANGED <<ledger, subs, prov, reqs>>

HookFailedUpdate(w, storeFails) ==
    /\ w \in Running(hooks, "pastdue")
    /\ LET out == FailedUpdate(subs, w, storeFails)
       IN /\ subs' = out.subs
          /\ hooks' = (hooks (-) One(w)) (+) One(HookResp(out.status))
    /\ UNCHANGED <<ledger, prov, reqs>>

\* default: any other event type is acknowledged
HookIgnore(base, e) ==
    /\ base \in Vacate(hooks, MaxHooks)
    /\ e \in OtherEvents
    /\ hooks' = base (+) One(HookResp(200))
    /\ UNCHANGED <<ledger, subs, prov, reqs>>

\* one delivery of e handled from start to end with nothing in between and no
\* store failure: the store it leaves and the status it answers
Handle(st, e) ==
    IF Route(e.type) = "checkout" THEN Checkout(st.ledger, st.subs, e, None)
    ELSE IF Route(e.type) = "subscription"
    THEN LET out == Subscription(st.subs, e, FALSE)
         IN [ledger |-> st.ledger, subs |-> out.subs, status |-> out.status]
    ELSE IF Route(e.type) = "paid"
    THEN LET w1 == InvoiceLookup(st.subs, e, FALSE)
             w2 == InvoiceRetrieve(w1, FALSE)
             g == InvoiceGrant(st.ledger, w2, None)
             u == InvoiceUpsert(st.subs, g.hook, FALSE)
         IN IF w1.pc = "done"
            THEN [ledger |-> st.ledger, subs |-> st.subs, status |-> w1.status]
            ELSE IF w2.pc = "done"
            THEN [ledger |-> st.ledger, subs |-> st.subs, status |-> w2.status]
            ELSE IF g.hook.pc = "done"
            THEN [ledger |-> g.ledger, subs |-> st.subs, status |-> g.hook.status]
            ELSE [ledger |-> g.ledger, subs |-> u.subs, status |-> u.status]
    ELSE IF Route(e.type) = "failed"
    THEN LET w1 == FailedResolve(st.subs, e, FALSE)
             u == FailedUpdate(st.subs, w1, FALSE)
         IN IF w1.pc = "done"
            THEN [ledger |-> st.ledger, subs |-> st.subs, status |-> w1.status]
            ELSE [ledger |-> st.ledger, subs |-> u.subs, status |-> u.status]
    ELSE [ledger |-> st.ledger, subs |-> st.subs, status |-> 200]

Events == CheckoutEvents \cup SubscriptionEvents \cup PaidEvents
          \cup FailedEvents \cup OtherEvents

\* a delivery handled with no other delivery under way; the response is kept
\* with the event it answers
HookDeliver(e) ==
    /\ e \in Events
    /\ LET out == Handle([ledger |-> ledger, subs |-> subs], e)
       IN /\ ledger' = out.ledger
          /\ subs' = out.subs
          /\ hooks' = One([HookResp(out.status) EXCEPT !.event = e])
    /\ UNCHANGED <<prov, reqs>>

(***************************************************************************)
(* Specifications                                                          *)
(***************************************************************************)
Init ==
    /\ ledger = EmptyBag
    /\ subs = {}
    /\ prov = <<[status |-> "incomplete", end |-> 1]>>
    /\ reqs = EmptyBag
    /\ hooks = EmptyBag

\* the stage-room route alone, for one user whose balance comes from a top-up
InitRoom ==
    /\ ledger \in {EmptyBag, One(Entry("u1", "topup", "cs_pack", TopupTokens))}
    /\ subs = {}
    /\ prov = <<[status |-> "incomplete", end |-> 1]>>
    /\ reqs = EmptyBag
    /\ hooks = EmptyBag

NextRoom ==
    \/ \E base \in Vacate(reqs, MaxReqs), st \in RejectStatuses :
           StageRoomReject(base, st)
    \/ \E base \in Vacate(reqs, MaxReqs), job \in JobIds, raw \in ModelVersionRaw,
          f \in BOOLEAN : StageRoomSpend(base, "u1", job, raw, f)
    \/ \E q \in BagToSet(reqs), o \in CompositorOutcomes : StageRoomCompose(q, o)
    \/ \E q \in BagToSet(reqs), f \in BOOLEAN : StageRoomRefund(q, f)

SpecRoom == InitRoom /\ [][NextRoom]_vars

\* the events about customer cus1, who is user u1
Cus1Events == {e \in Events : e.customer # "cus2" /\ e.obj.customer # "cus2"}

\* the webhook alone: deliveries about one customer running side by side,
\* with the provider's subscription changing under them
NextHook ==
    \/ \E base \in Vacate(hooks, MaxHooks), m \in Methods, sig \in Signatures :
           HookReject(base, m, sig)
    \/ \E base \in Vacate(hooks, MaxHooks), e \in Cus1Events, f \in {None, "other"} :
           HookCheckout(base, e, f)
    \/ \E base \in Vacate(hooks, MaxHooks), e \in Cus1Events, f \in BOOLEAN :
           HookSubscription(base, e, f)
    \/ \E base \in Vacate(hooks, MaxHooks), e \in Cus1Events, f \in BOOLEAN :
           HookInvoiceLookup(base, e, f)
    \/ \E w \in BagToSet(hooks), f \in BOOLEAN : HookInvoiceRetrieve(w, f)
    \/ \E w \in BagToSet(hooks), f \in {None, "other"} : HookInvoiceGrant(w, f)
    \/ \E w \in BagToSet(hooks), f \in BOOLEAN : HookInvoiceUpsert(w, f)
    \/ \E base \in Vacate(hooks, MaxHooks), e \in Cus1Events, f \in BOOLEAN :
           HookFailedResolve(base, e, f)
    \/ \E w \in BagToSet(hooks), f \in BOOLEAN : HookFailedUpdate(w, f)
    \/ \E base \in Vacate(hooks, MaxHooks), e \in OtherEvents : HookIgnore(base, e)
    \/ ProviderStep

SpecHook == Init /\ [][NextHook]_vars

\* the webhook alone: every event, one delivery at a time
NextSeq ==
    \/ \E e \in Events : HookDeliver(e)
    \/ ProviderStep

SpecSeq == Init /\ [][NextSeq]_vars

\* both handlers on one store: user u1's top-up, subscription checkout and
\* paid invoice, and u1's requests for one job; store and provider calls
\* succeed here (their failures are part of SpecRoom and SpecHook)
AllCheckouts ==
    {CheckoutEvent("cs_pack", "payment", "u1", "cus1", None, "price_pack"),
     CheckoutEvent("cs_sub1", "subscription", "u1", "cus1", "sub1", None)}

AllInvoices == {InvoiceEvent("invoice.paid", "in_1", "cus1", "sub1")}

NextAll ==
    \/ \E base \in Vacate(reqs, MaxReqs), raw \in ModelVersionRaw :
           StageRoomSpend(base, "u1", "a", raw, FALSE)
    \/ \E q \in BagToSet(reqs), o \in CompositorOutcomes : StageRoomCompose(q, o)
    \/ \E q \in BagToSet(reqs) : StageRoomRefund(q, FALSE)
    \/ \E base \in Vacate(hooks, MaxHooks), e \in AllCheckouts :
           HookCheckout(base, e, None)
    \/ \E base \in Vacate(hooks, MaxHooks), e \in AllInvoices :
           HookInvoiceLookup(base, e, FALSE)
    \/ \E w \in BagToSet(hooks) : HookInvoiceRetrieve(w, FALSE)
    \/ \E w \in BagToSet(hooks) : HookInvoiceGrant(w, None)
    \/ \E w \in BagToSet(hooks) : HookInvoiceUpsert(w, FALSE)

SpecAll == Init /\ [][NextAll]_vars

\* the webhook on a failing store: user u1's top-up, subscription checkout,
\* subscription event, paid invoice and failed invoice, each store call able
\* to fail, the ledger insert with any of the errors the store can return
FaultInvoices == {InvoiceEvent("invoice.payment_failed", "in_4", "cus1", "sub1")}

NextFault ==
    \/ \E base \in Vacate(hooks, MaxHooks), e \in AllCheckouts, f \in InsertFaults :
           HookCheckout(base, e, f)
    \/ \E base \in Vacate(hooks, MaxHooks), e \in Cus1Events, f \in BOOLEAN :
           HookSubscription(base, e, f)
    \/ \E base \in Vacate(hooks, MaxHooks), e \in AllInvoices, f \in BOOLEAN :
           HookInvoiceLookup(base, e, f)
    \/ \E w \in BagToSet(hooks), f \in BOOLEAN : HookInvoiceRetrieve(w, f)
    \/ \E w \in BagToSet(hooks), f \in InsertFaults : HookInvoiceGrant(w, f)
    \/ \E w \in BagToSet(hooks), f \in BOOLEAN : HookInvoiceUpsert(w, f)
    \/ \E base \in Vacate(hooks, MaxHooks), e \in FaultInvoices, f \in BOOLEAN :
           HookFailedResolve(base, e, f)
    \/ \E w \in BagToSet(hooks), f \in BOOLEAN : HookFailedUpdate(w, f)

SpecFault == Init /\ [][NextFault]_vars

\* two users on one ledger: each one's top-up, and spends and refunds of one
\* job id by either
UserCheckouts ==
    {CheckoutEvent("cs_pack", "payment", "u1", "cus1", None, "price_pack"),
     CheckoutEvent("cs_pack2", "payment", "u2", "cus2", None, "price_pack")}

NextUsers ==
    \/ \E base \in Vacate(reqs, MaxReqs), u \in Users, raw \in ModelVersionRaw :
           StageRoomSpend(base, u, "a", raw, FALSE)
    \/ \E q \in BagToSet(reqs), o \in CompositorOutcomes : StageRoomCompose(q, o)
    \/ \E q \in BagToSet(reqs) : StageRoomRefund(q, FALSE)
    \/ \E base \in Vacate(hooks, MaxHooks), e \in UserCheckouts :
           HookCheckout(base, e, None)

SpecUsers == Init /\ [][NextUsers]_vars

\* the provider customer created for a user by stripe.customers.create
CustomerOf(u) == IF u = "u1" THEN "cus1" ELSE "cus2"

\* the top-up route and the checkout route before they create the session:
\* a user whose row has no provider customer gets one, saved with the status
\* the route writes
Linkage(S, u, st) ==
    LET rows == {row \in S : row.user_id = u}
        stripeCustomerId == IF rows = {} THEN None
                            ELSE (CHOOSE row \in rows : TRUE).stripe_customer_id
    IN IF stripeCustomerId # None THEN S
       ELSE Upsert(S, [user_id |-> u, stripe_customer_id |-> CustomerOf(u),
                       status |-> st])

\* POST /api/stripe/topup
RouteTopup(u) ==
    /\ subs' = Linkage(subs, u, "inactive")
    /\ UNCHANGED <<ledger, prov, reqs, hooks>>

\* POST /api/stripe/checkout
RouteCheckout(u) ==
    /\ subs' = Linkage(subs, u, "incomplete")
    /\ UNCHANGED <<ledger, prov, reqs, hooks>>

\* the webhook, one delivery at a time, and the two routes that write the
\* subscriptions table
NextLink ==
    \/ \E u \in Users : RouteTopup(u)
    \/ \E u \in Users : RouteCheckout(u)
    \/ \E e \in Events : HookDeliver(e)
    \/ ProviderStep

SpecLink == Init /\ [][NextLink]_vars

(***************************************************************************)
(* The top-up and checkout routes call by call: the subscriptions lookup,  *)
(* stripe.customers.create, the linkage upsert and                         *)
(* stripe.checkout.sessions.create are separate awaits, so calls of        *)
(* different requests interleave.  The requests in flight are kept in reqs *)
(* and stay there with their response.                                     *)
(***************************************************************************)
NewCall == [pc |-> "new", route |-> None, user |-> None, customer |-> None,
            created |-> FALSE, status |-> 0]

CallResp(c, st) == [c EXCEPT !.pc = "done", !.status = st]

RouteNames == {"topup", "checkout"}

\* the status each route saves with a new linkage
LinkStatus(route) == IF route = "topup" THEN "inactive" ELSE "incomplete"

\* the responses before the subscriptions lookup: 400 for a top-up without
\* (valid, active) priceId, 401 without bearer token or user
EarlyStatuses(route) == IF route = "topup" THEN {0, 400, 401} ELSE {0, 401}

\* the id stripe.customers.create returns: a new one each time
NewCustomerId(n) == "cus_new" \o ToString(n)

\* the customers created so far by the requests in reqs
CreatedCount(b) ==
    BagCardinality([c \in {x \in BagToSet(b) : x.created} |-> CopiesIn(c, b)])

\* select stripe_customer_id from subscriptions where user_id = u, maybeSingle
RouteLookup(S, route, u, early, storeFails) ==
    LET rows == {row \in S : row.user_id = u}
        call == [NewCall EXCEPT !.route = route, !.user = u]
        stripeCustomerId == IF rows = {} THEN None
                            ELSE (CHOOSE row \in rows : TRUE).stripe_customer_id
    IN IF early # 0 THEN CallResp(call, early)
       ELSE IF storeFails \/ Cardinality(rows) > 1 THEN CallResp(call, 500)
       ELSE IF stripeCustomerId # None
       THEN [call EXCEPT !.pc = "session", !.customer = stripeCustomerId]
       ELSE [call EXCEPT !.pc = "create"]

RouteBegin(route, u, early, storeFails) ==
    /\ BagCardinality(reqs) < MaxCalls
    /\ early \in EarlyStatuses(route)
    /\ reqs' = reqs (+) One(RouteLookup(subs, route, u, early, storeFails))
    /\ UNCHANGED <<ledger, subs, prov, hooks>>

\* stripe.customers.create
RouteCustomer(c, fails) ==
    /\ c \in Running(reqs, "create")
    /\ reqs' = (reqs (-) One(c)) (+) One(
                  IF fails THEN CallResp(c, 500)
                  ELSE [c EXCEPT !.pc = "save", !.created = TRUE,
                                 !.customer = NewCustomerId(CreatedCount(reqs) + 1)])
    /\ UNCHANGED <<ledger, subs, prov, hooks>>

\* upsert({user_id, stripe_customer_id, status})
RouteSave(c, storeFails) ==
    /\ c \in Running(reqs, "save")
    /\ subs' = IF storeFails THEN subs
               ELSE Upsert(subs, [user_id |-> c.user,
                                  stripe_customer_id |-> c.customer,
                                  status |-> LinkStatus(c.route)])
    /\ reqs' = (reqs (-) One(c)) (+) One(
                  IF storeFails THEN CallResp(c, 500) ELSE [c EXCEPT !.pc = "session"])
    /\ UNCHANGED <<ledger, prov, hooks>>

\* stripe.checkout.sessions.create({customer: stripeCustomerId, ...})
RouteSession(c, fails) ==
    /\ c \in Running(reqs, "session")
    /\ reqs' = (reqs (-) One(c)) (+) One(CallResp(c, IF fails THEN 500 ELSE 200))
    /\ UNCHANGED <<ledger, subs, prov, hooks>>

\* user u1 has no row; user u2 has none or one with a stored customer
InitBind ==
    /\ ledger = EmptyBag
    /\ subs \in {{}, Upsert({}, [user_id |-> "u2", stripe_customer_id |-> "cus2",
                                 status |-> "active"])}
    /\ prov = <<[status |-> "incomplete", end |-> 1]>>
    /\ reqs = EmptyBag
    /\ hooks = EmptyBag

NextBind ==
    \/ \E r \in RouteNames, u \in Users, early \in {0, 400, 401}, f \in BOOLEAN :
           RouteBegin(r, u, early, f)
    \/ \E c \in BagToSet(reqs), f \in BOOLEAN : RouteCustomer(c, f)
    \/ \E c \in BagToSet(reqs), f \in BOOLEAN : RouteSave(c, f)
    \/ \E c \in BagToSet(reqs), f \in BOOLEAN : RouteSession(c, f)

SpecBind == InitBind /\ [][NextBind]_vars

\* one paid invoice of a linked customer under the provider's retry policy:
\* the event is delivered, and delivered again after every 500, until a
\* delivery is answered 200; every call of a delivery can fail
RetryInvoice == InvoiceEvent("invoice.paid", "in_1", "cus1", "sub1")

\* the customer's linkage row as the subscription checkout left it
InitRetry ==
    /\ ledger = EmptyBag
    /\ subs = Checkout(EmptyBag, {},
                       CheckoutEvent("cs_sub1", "subscription", "u1", "cus1",
                                     "sub1", None), None).subs
    /\ prov = <<[status |-> "incomplete", end |-> 1]>>
    /\ reqs = EmptyBag
    /\ hooks = EmptyBag

ProviderRetry(e, storeFails) ==
    /\ hooks = EmptyBag \/ \E d \in Running(hooks, "done") : d.status = 500
    /\ HookInvoiceLookup(EmptyBag, e, storeFails)

NextRetry ==
    \/ \E f \in BOOLEAN : ProviderRetry(RetryInvoice, f)
    \/ \E w \in BagToSet(hooks), f \in BOOLEAN : HookInvoiceRetrieve(w, f)
    \/ \E w \in BagToSet(hooks), f \in InsertFaults : HookInvoiceGrant(w, f)
    \/ \E w \in BagToSet(hooks), f \in BOOLEAN : HookInvoiceUpsert(w, f)
    \/ ProviderStep

\* the provider keeps retrying and a delivery runs to its response; the store
\* and the provider's API stop failing, so that a call that is made again and
\* again succeeds in the end
FairRetry ==
    /\ SF_vars(ProviderRetry(RetryInvoice, FALSE))
    /\ SF_vars(\E w \in BagToSet(hooks) : HookInvoiceRetrieve(w, FALSE))
    /\ SF_vars(\E w \in BagToSet(hooks) : HookInvoiceGrant(w, None))
    /\ SF_vars(\E w \in BagToSet(hooks) : HookInvoiceUpsert(w, FALSE))

SpecRetry == InitRetry /\ [][NextRetry]_vars /\ FairRetry

(***************************************************************************)
(* Properties                                                              *)
(***************************************************************************)
Spends(led, u) == {e \in EntriesOf(led, u) : e.kind = "spend"}
Refunds(led, u) == {e \in EntriesOf(led, u) : e.kind = "refund"}
Grants(led, u) == {e \in EntriesOf(led, u) : e.kind \in {"monthly_grant", "topup"}}

Answered(b) == Running(b, "done")

\* C1: as long as a customer has received no refund, the costs of the spends
\* that succeeded, in whatever interleaving the requests ran, add up to no
\* more than what the customer was granted; with a balance that covers one
\* cost only one of two requests with different job ids gets through.
C1_SpendsWithinStartBalance ==
    \A u \in Users :
        Refunds(ledger, u) = {} =>
            0 - SumDelta(ledger, Spends(ledger, u)) <= SumDelta(ledger, Grants(ledger, u))

\* one request is past its spend, the balance left does not cover the cost of
\* a second one, and a second request was refused
C1_Witness ==
    /\ Refunds(ledger, "u1") = {}
    /\ Grants(ledger, "u1") # {}
    /\ \E q \in Running(reqs, "compose"), d \in Answered(reqs) :
          /\ d.status = 402
          /\ BalanceOf(ledger, "u1") < q.cost

\* C2: a spend whose cost exceeds the balance, for a job id that has no spend
\* entry, is refused (402, insufficient tokens) and leaves the ledger as it was.
C2_InsufficientRefused ==
    \A u \in Users :
        LET bal == BalanceOf(ledger, u)
        IN \A job \in JobIds, raw \in ModelVersionRaw :
              ( /\ tokenCost(normalizedModelVersion(raw)) > bal
                /\ ~HasEntry(ledger, u, "spend", job) )
              => Spend(ledger, u, job, raw, FALSE) =
                    [ledger |-> ledger,
                     req |-> RoomResp(402, bal, "Insufficient tokens")]

\* a request was refused although the customer holds tokens and one of the
\* job ids is unspent
C2_Witness ==
    \E d \in Answered(reqs), job \in JobIds :
        /\ d.status = 402 /\ d.error = "Insufficient tokens"
        /\ BalanceOf(ledger, "u1") > 0
        /\ ~HasEntry(ledger, "u1", "spend", job)

\* C3: the ledger never holds two entries under one (customer, kind,
\* external id).
C3_UniqueKeys ==
    \A e \in BagToSet(ledger) : KeyCount(ledger, e.user, e.kind, e.ext) = 1

\* two deliveries of one invoice are both past the grant, and the job was
\* spent and refunded
C3_Witness ==
    /\ \E w \in Running(hooks, "upsert") : CopiesIn(w, hooks) = 2
    /\ HasEntry(ledger, "u1", "topup", "cs_pack")
    /\ HasEntry(ledger, "u1", "spend", "a")
    /\ HasEntry(ledger, "u1", "refund", "a")

\* C4: the balance a spend call reports, accepted or refused, is the sum of
\* delta over the customer's entries as the call leaves them.
C4_ReportedBalanceIsSum ==
    \A u \in Users, job \in JobIds, raw \in ModelVersionRaw :
        LET r == Spend(ledger, u, job, raw, FALSE)
        IN r.req.balance = BalanceOf(r.ledger, u)

\* a refusal that reports the tokens the customer still holds
C4_Witness ==
    \E d \in Answered(reqs) :
        d.status = 402 /\ d.balance > 0 /\ d.balance = BalanceOf(ledger, "u1")

\* C5: when a request that has spent is answered with a generation failure,
\* the ledger holds a refund for its job.
C5_RefundOnFailure ==
    [][\A q \in BagToSet(reqs) :
          ( /\ q.pc \in {"compose", "refund"}
            /\ \E d \in Answered(reqs') : reqs' = (reqs (-) One(q)) (+) One(d)
            /\ \A d \in Answered(reqs') :
                  reqs' = (reqs (-) One(q)) (+) One(d) => d.status = 500 )
          => HasEntry(ledger', q.user, "refund", q.job)]_vars

\* C6: a spend call for a job id that already has a spend entry succeeds
\* without touching the ledger and reports the balance as it stands.
C6_RetryIsNoOp ==
    \A u \in Users, job \in JobIds, raw \in ModelVersionRaw :
        HasEntry(ledger, u, "spend", job)
        => LET r == Spend(ledger, u, job, raw, FALSE)
           IN /\ r.ledger = ledger
              /\ r.req.pc = "compose"
              /\ r.req.balance = BalanceOf(ledger, u)

\* two requests for one job are past the spend on a single spend entry
C6_Witness ==
    \E q1, q2 \in Running(reqs, "compose") :
        /\ q1.user = q2.user /\ q1.job = q2.job
        /\ q1 # q2 \/ CopiesIn(q1, reqs) = 2
        /\ KeyCount(ledger, q1.user, "spend", q1.job) = 1

C8_SingleRefund ==
    \A u \in Users, job \in JobIds : KeyCount(ledger, u, "refund", job) <= 1

\* the failure path has answered twice, and one job only was ever spent
C8_Witness ==
    /\ CopiesIn(RoomResp(500, 0, "no imageUrl"), reqs) = 2
    /\ \E e \in Spends(ledger, "u1") : Spends(ledger, "u1") = {e}
    /\ Refunds(ledger, "u1") # {}

\* C9: once a delivery of a paid invoice is past the grant step, the ledger
\* holds exactly one monthly_grant for that invoice id: the customer's, of the
\* plan's monthly tokens.
C9_OneGrantPerInvoice ==
    \A w \in Running(hooks, "upsert") :
        LET G == {e \in BagToSet(ledger) :
                     e.kind = "monthly_grant" /\ e.ext = w.invoice}
        IN /\ G = {Entry(w.user, "monthly_grant", w.invoice, w.plan.monthly_tokens)}
           /\ SumCopies(ledger, G) = 1

\* two deliveries of one invoice are both past the grant step
C9_Witness ==
    \E w \in Running(hooks, "upsert") :
        CopiesIn(w, hooks) = 2 /\ HasEntry(ledger, w.user, "monthly_grant", w.invoice)

\* C10: handling an event a second time right after the first leaves the
\* ledger and the subscriptions as the first left them, and is acknowledged
\* the same way.
C10_RedeliveryIdempotent ==
    \A e \in Events :
        LET once == Handle([ledger |-> ledger, subs |-> subs], e)
            twice == Handle([ledger |-> once.ledger, subs |-> once.subs], e)
        IN twice = once

\* a paid invoice whose grant is in the ledger can be delivered again
C10_Witness ==
    \E e \in PaidEvents :
        /\ HasEntry(ledger, "u1", "monthly_grant", e.id)
        /\ Handle([ledger |-> ledger, subs |-> subs], e).status = 200
        /\ \E row \in subs : row.user_id = "u1" /\ row.plan_id = "pro"

\* the store as one value, and two events handled one after the other
Store == [ledger |-> ledger, subs |-> subs]
Handle2(st, e1, e2) ==
    LET mid == Handle(st, e1)
    IN Handle([ledger |-> mid.ledger, subs |-> mid.subs], e2)

\* the events about subscription sub1 of customer cus1 that a handler acts on
LifecycleEvents ==
    {e \in Events : Route(e.type) # "ignore"
                     /\ (e.subscription = "sub1" \/ e.obj.id = "sub1")}

\* the subscription event carrying the provider's current snapshot
LatestEvent(e) == e \in SubscriptionEvents /\ e.obj = RetrieveSub("sub1")

\* C11: two events about one customer's subscription leave the same
\* subscriptions table in either delivery order, and when one of them carries
\* the provider's current snapshot the customer's row has the provider's
\* current status and period end.
C11_OrderIndependent ==
    \A e1, e2 \in LifecycleEvents :
        LET a == Handle2(Store, e1, e2)
            b == Handle2(Store, e2, e1)
        IN /\ a.subs = b.subs
           /\ LatestEvent(e2) =>
                  \A row \in a.subs \cup b.subs :
                      row.user_id = "u1" =>
                          /\ row.status = RetrieveSub("sub1").status
                          /\ row.current_period_end
                                 = unixToIso(RetrieveSub("sub1").end)

\* a top-up checkout of a known user whose price has no active top-up
UncataloguedCheckout(e) ==
    /\ Route(e.type) = "checkout" /\ e.mode = "payment"
    /\ getUserIdFromMetadata(e) # None
    /\ e.price # None /\ getTopupByPriceId(e.price) = NoTopup

\* a paid invoice of a known customer whose subscription's price has no plan
UncataloguedInvoice(S, e) ==
    /\ Route(e.type) = "paid"
    /\ LET w == InvoiceLookup(S, e, FALSE)
       IN /\ w.pc = "retrieve"
          /\ RetrieveSub(w.subscriptionId).price # None
          /\ RetrieveSub(w.subscriptionId).price
                 \notin {p.stripe_price_id : p \in Plans}

\* C12: an event whose price is in no catalog row (no active top-up for a
\* checkout, no plan for a paid invoice) leaves the ledger as it is and is
\* answered 200.
C12_UnknownPriceNoEntry ==
    \A e \in Events :
        UncataloguedCheckout(e) \/ UncataloguedInvoice(subs, e) =>
            /\ Handle(Store, e).ledger = ledger
            /\ Handle(Store, e).status = 200

\* both cases were delivered: the invoice of customer cus2, whose row exists
\* and whose subscription has an uncatalogued price, was the last one answered
\* (200), and nothing was ever granted to u2 or under the old price's session
C12_Witness ==
    /\ \E row \in subs : row.stripe_customer_id = "cus2"
    /\ \E h \in Answered(hooks) :
           /\ h.status = 200 /\ h.event.id = "in_2"
           /\ UncataloguedInvoice(subs, h.event)
    /\ \E e \in CheckoutEvents : UncataloguedCheckout(e)
    /\ EntriesOf(ledger, "u2") = {}
    /\ EntriesOf(ledger, "u1") # {}

\* C13: the generation step is entered only from a spend that reported
\* success; a refused spend is answered 402 and an erroring spend call 500,
\* both with the ledger as it was, and every request at or past the
\* generation step has its spend entry in the ledger.
C13_GenerationOnlyAfterSpend ==
    /\ \A u \in Users, job \in JobIds, raw \in ModelVersionRaw :
          LET cost == tokenCost(normalizedModelVersion(raw))
              spendRow == TrySpend(ledger, u, cost, job)
              ok == Spend(ledger, u, job, raw, FALSE)
              err == Spend(ledger, u, job, raw, TRUE)
          IN /\ err.ledger = ledger /\ err.req.pc = "done" /\ err.req.status = 500
             /\ ~spendRow.success =>
                    /\ ok.ledger = ledger
                    /\ ok.req.pc = "done" /\ ok.req.status = 402
             /\ ok.req.pc = "compose" <=> spendRow.success
    /\ \A q \in Running(reqs, "compose") \cup Running(reqs, "refund") :
          HasEntry(ledger, q.user, "spend", q.job)

\* one request was answered 500 for an erroring spend call and another 402
\* for a refused spend, and the job they asked for has no spend entry
C13_Witness ==
    \E d1, d2 \in Answered(reqs), job \in JobIds :
        /\ d1.status = 500 /\ d1.error = "Token spend failed"
        /\ d2.status = 402 /\ d2.error = "Insufficient tokens"
        /\ ~HasEntry(ledger, "u1", "spend", job)
        /\ ~spentOk(TrySpend(ledger, "u1", CostGemini3, job))

\* C14: appending an entry under a key the ledger holds changes nothing: the
\* insert reports a duplicate and leaves the ledger as it is, a top-up
\* checkout whose entry exists is answered 200 with the store unchanged, and an
\* invoice delivery whose grant exists goes on to its upsert and its 200.
C14_DuplicateAppendNoOp ==
    /\ \A x \in BagToSet(ledger) : \A d \in {x.delta, x.delta + 1} :
          /\ LedgerInsert(ledger, [x EXCEPT !.delta = d]).ledger = ledger
          /\ ~Thrown(LedgerInsert(ledger, [x EXCEPT !.delta = d]).error)
    /\ \A e \in CheckoutEvents :
          ( /\ e.mode = "payment" /\ getUserIdFromMetadata(e) # None
            /\ HasEntry(ledger, getUserIdFromMetadata(e), "topup", e.id) )
          => Checkout(ledger, subs, e, None)
                = [ledger |-> ledger, subs |-> subs, status |-> 200]
    /\ \A w \in Running(hooks, "grant") :
          HasEntry(ledger, w.user, "monthly_grant", w.invoice)
          => LET g == InvoiceGrant(ledger, w, None)
             IN /\ g.ledger = ledger
                /\ g.hook = [w EXCEPT !.pc = "upsert"]
                /\ InvoiceUpsert(subs, g.hook, FALSE).status = 200

\* a delivery of an invoice stands before its insert while the grant of that
\* invoice is in the ledger, and a top-up that can be delivered again is too
C14_Witness ==
    /\ \E w \in Running(hooks, "grant") :
          HasEntry(ledger, w.user, "monthly_grant", w.invoice)
    /\ \E e \in CheckoutEvents : HasEntry(ledger, "u1", "topup", e.id)

\* C15: the ledger only grows: every entry it holds before a step of the
\* webhook, the spend or the refund is in it, unaltered, after the step.
C15_AppendOnly == [][ledger \sqsubseteq ledger']_vars

\* a top-up, a monthly grant, a spend and a refund were appended one by one
C15_Witness ==
    /\ BagCardinality(ledger) = 4
    /\ \A k \in Kinds : \E e \in BagToSet(ledger) : e.kind = k

\* C16: a request that is not a POST, has no signature header or fails the
\* verification is answered 405 or 400 and leaves the ledger and the
\* subscriptions as they were.
C16_RejectedChangesNothing ==
    \A m \in Methods, sig \in Signatures :
        ~(m = "POST" /\ sig = "good") =>
            LET out == Verify(ledger, subs, m, sig)
            IN /\ out.status \in HookRejectStatuses
               /\ out.status = 405 <=> m # "POST"
               /\ out.ledger = ledger /\ out.subs = subs

\* a 405 and a 400 were answered while the store holds a grant and a row
C16_Witness ==
    /\ HookResp(405) \in BagToSet(hooks) /\ HookResp(400) \in BagToSet(hooks)
    /\ ledger # EmptyBag /\ subs # {}

\* an event nobody can be found for: a checkout without metadata user id, an
\* invoice event whose customer has no row and whose subscription carries no
\* metadata user id
Unresolvable(S, e) ==
    \/ Route(e.type) = "checkout" /\ getUserIdFromMetadata(e) = None
    \/ /\ Route(e.type) \in {"paid", "failed"}
       /\ e.customer = None \/ RowsByCustomer(S, e.customer) = {}
       /\ \/ e.subscription = None
          \/ getUserIdFromMetadata(RetrieveSub(e.subscription)) = None

\* C17: an event nobody can be found for is answered 200 and leaves the
\* ledger and every customer's row as they were.
C17_UnresolvableIgnored ==
    \A e \in Events :
        Unresolvable(subs, e) =>
            Handle(Store, e) = [ledger |-> ledger, subs |-> subs, status |-> 200]

\* the failed invoice of customer cus2, who has no row and no metadata, was
\* answered 200 while user u1 has a row and entries it could have landed on
C17_Witness ==
    /\ \E h \in Answered(hooks) :
           /\ h.status = 200 /\ h.event.id = "in_5"
           /\ Unresolvable(subs, h.event)
    /\ \E row \in subs : row.user_id = "u1" /\ row.status # "past_due"
    /\ EntriesOf(ledger, "u1") # {}

\* the event types the switch has a case for
HandledTypes ==
    {"checkout.session.completed", "invoice.payment_failed"}
    \cup SubscriptionEventTypes \cup PaidEventTypes

\* C18: a verified event of a type the handler has no case for is answered
\* 200 and leaves the ledger and the subscriptions as they were.
C18_UnhandledTypeIgnored ==
    \A e \in Events :
        e.type \notin HandledTypes =>
            Handle(Store, e) = [ledger |-> ledger, subs |-> subs, status |-> 200]

\* an invoice.finalized event for a customer with a row and a catalogued
\* subscription was answered 200, and its invoice has no grant
C18_Witness ==
    /\ \E h \in Answered(hooks) :
           /\ h.status = 200 /\ h.event.type = "invoice.finalized"
           /\ RowsByCustomer(subs, h.event.customer) # {}
           /\ getPlanByPriceId(RetrieveSub(h.event.subscription).price) # NoPlan
           /\ \A u \in Users : ~HasEntry(ledger, u, "monthly_grant", h.event.id)

\* C19: handling invoice.payment_failed for a customer who resolves to a user
\* leaves that user with a row of status past_due whose other fields are as
\* before, and leaves the ledger and every other user's row unchanged.
C19_FailedSetsPastDue ==
    \A e \in FailedEvents :
        LET w == FailedResolve(subs, e, FALSE)
            out == Handle(Store, e)
        IN w.pc = "pastdue" =>
              /\ out.status = 200
              /\ out.ledger = ledger
              /\ \E row \in out.subs :
                     row.user_id = w.user /\ row.status = "past_due"
              /\ \A row \in subs :
                     IF row.user_id = w.user
                     THEN [row EXCEPT !.status = "past_due"] \in out.subs
                     ELSE row \in out.subs
              /\ Cardinality(out.subs) <= Cardinality(subs) + 1

\* C20: a delivery one of whose store calls fails, with any error but the
\* duplicate of the ledger's own key, is answered 500; and a top-up or an
\* invoice that was answered 200, or passed on to its upsert, has its entry.
C20_StoreFailureAnswers500 ==
    /\ \A e \in CheckoutEvents, f \in InsertFaults \ {None} :
          LET topup == getTopupByPriceId(e.price)
              userId == getUserIdFromMetadata(e)
              out == Checkout(ledger, subs, e, f)
          IN ( /\ userId # None
               /\ e.mode = "payment" => f = "other" \/ topup # NoTopup )
             => /\ out.status = 500
                /\ out.ledger = ledger /\ out.subs = subs
    /\ \A w \in Running(hooks, "grant"), f \in InsertFaults \ {None} :
          LET g == InvoiceGrant(ledger, w, f)
          IN ~HasEntry(ledger, w.user, "monthly_grant", w.invoice)
             => g.hook = HookResp(500) /\ g.ledger = ledger
    /\ \A e \in SubscriptionEvents :
          getUserIdFromMetadata(e.obj) # None
          => Subscription(subs, e, TRUE) = [subs |-> subs, status |-> 500]
    /\ \A e \in PaidEvents :
          e.customer # None => InvoiceLookup(subs, e, TRUE) = HookResp(500)
    /\ \A w \in Running(hooks, "retrieve") : InvoiceRetrieve(w, TRUE) = HookResp(500)
    /\ \A w \in Running(hooks, "upsert") :
          InvoiceUpsert(subs, w, TRUE) = [subs |-> subs, status |-> 500]
    /\ \A e \in FailedEvents :
          e.subscription # None => FailedResolve(subs, e, TRUE) = HookResp(500)
    /\ \A w \in Running(hooks, "pastdue") :
          FailedUpdate(subs, w, TRUE) = [subs |-> subs, status |-> 500]

\* C21: under retry until 200 and a store that stops failing, the paid
\* invoice of a linked customer with a catalogued plan ends, and stays, with
\* exactly one monthly_grant under its id and the customer's row carrying the
\* plan of the retrieved subscription.
C21_EventualGrant ==
    <>[](/\ KeyCount(ledger, "u1", "monthly_grant", "in_1") = 1
         /\ \E row \in subs : row.user_id = "u1" /\ row.plan_id = "pro")

\* the entries of one user, as a ledger of their own
OnlyOf(led, u) == [e \in EntriesOf(led, u) |-> led[e]]

\* C22: a spend, a refund or a grant for one user leaves every other user's
\* entries and balance as they were, and whether a spend succeeds is decided
\* by the spending user's entries alone.
C22_CustomersIsolated ==
    \A A \in Users : \A B \in Users \ {A} :
        /\ \A job \in JobIds, raw \in ModelVersionRaw :
              LET cost == tokenCost(normalizedModelVersion(raw))
                  r == Spend(ledger, A, job, raw, FALSE)
              IN /\ OnlyOf(r.ledger, B) = OnlyOf(ledger, B)
                 /\ BalanceOf(r.ledger, B) = BalanceOf(ledger, B)
                 /\ TrySpend(ledger, A, cost, job).success
                        = TrySpend(OnlyOf(ledger, A), A, cost, job).success
        /\ \A q \in Running(reqs, "refund") :
              q.user = A =>
                 LET led == LedgerInsert(ledger, RefundEntry(q)).ledger
                 IN /\ OnlyOf(led, B) = OnlyOf(ledger, B)
                    /\ BalanceOf(led, B) = BalanceOf(ledger, B)
        /\ \A e \in UserCheckouts :
              getUserIdFromMetadata(e) = A =>
                 LET led == Checkout(ledger, subs, e, None).ledger
                 IN /\ OnlyOf(led, B) = OnlyOf(ledger, B)
                    /\ BalanceOf(led, B) = BalanceOf(ledger, B)

\* one user has spent and stands before a refund while the other, who holds
\* tokens, has not spent, and a spend was refused
C22_Witness ==
    \E A \in Users : \E B \in Users \ {A} :
        /\ \E q \in Running(reqs, "refund") : q.user = A
        /\ HasEntry(ledger, A, "spend", "a") /\ ~HasEntry(ledger, B, "spend", "a")
        /\ BalanceOf(ledger, B) > BalanceOf(ledger, A)
        /\ \E d \in Answered(reqs) : d.status = 402

\* a completed one-time checkout of a known user for an active top-up pack
TopupCheckout(e) ==
    /\ Route(e.type) = "checkout" /\ e.mode = "payment"
    /\ getUserIdFromMetadata(e) # None
    /\ \E t \in Topups : t.stripe_price_id = e.price /\ t.is_active

\* C23: after a completed one-time checkout for an active pack of T tokens is
\* handled, once or twice, the ledger holds exactly one topup entry under the
\* session id, of +T and for the user of the session's metadata, everything
\* else in the ledger and every subscriptions row being as before; and no
\* state holds a second or a different topup entry under a session id.
C23_TopupOncePerSession ==
    /\ \A e \in Events :
          TopupCheckout(e) =>
             LET u == getUserIdFromMetadata(e)
                 T == (CHOOSE t \in Topups : t.stripe_price_id = e.price
                                             /\ t.is_active).tokens
                 once == Handle(Store, e)
                 twice == Handle2(Store, e, e)
             IN /\ once.status = 200 /\ twice = once
                /\ once.subs = subs
                /\ \A x \in BagToSet(once.ledger) :
                       x.kind = "topup" /\ x.ext = e.id
                       => x = Entry(u, "topup", e.id, T) /\ CopiesIn(x, once.ledger) = 1
                /\ HasEntry(once.ledger, u, "topup", e.id)
                /\ once.ledger (-) One(Entry(u, "topup", e.id, T))
                      = ledger (-) One(Entry(u, "topup", e.id, T))
    /\ \A x \in BagToSet(ledger) :
          x.kind = "topup" =>
             \E e \in CheckoutEvents :
                 /\ TopupCheckout(e) /\ x.ext = e.id
                 /\ x.user = getUserIdFromMetadata(e)
                 /\ KeyCount(ledger, x.user, "topup", x.ext) = 1

\* the top-up session of user u1 was the last event answered, with 200, its
\* entry is in the ledger, and subscriptions rows exist that it left alone
C23_Witness ==
    /\ \E h \in Answered(hooks) :
           /\ h.status = 200 /\ TopupCheckout(h.event)
           /\ HasEntry(ledger, getUserIdFromMetadata(h.event), "topup", h.event.id)
    /\ subs # {}
    /\ BagCardinality(ledger) > 1

\* C24: a completed subscription-mode checkout of a known user is answered
\* 200, leaves the ledger as it is, and leaves that user with one row that
\* carries the session's customer id and subscription id and status
\* incomplete, its plan and period end and every other row being as before.
C24_SubscriptionCheckoutLinks ==
    \A e \in CheckoutEvents :
        (e.mode = "subscription" /\ getUserIdFromMetadata(e) # None) =>
            LET u == getUserIdFromMetadata(e)
                old == {row \in subs : row.user_id = u}
                before == IF old = {} THEN NewRow(u) ELSE CHOOSE row \in old : TRUE
                out == Handle(Store, e)
            IN /\ out.status = 200
               /\ out.ledger = ledger
               /\ out.subs = (subs \ old) \cup
                     {[before EXCEPT !.stripe_customer_id = e.customer,
                                     !.stripe_subscription_id = e.subscription,
                                     !.status = "incomplete"]}

\* the subscription checkout of u1 was the last event answered, and it found
\* a row that already carried a plan
C24_Witness ==
    /\ \E h \in Answered(hooks) :
           /\ h.status = 200 /\ h.event.mode = "subscription"
           /\ getUserIdFromMetadata(h.event) = "u1"
    /\ \E row \in subs :
           /\ row.user_id = "u1" /\ row.status = "incomplete"
           /\ row.plan_id = "pro" /\ row.stripe_subscription_id = "sub1"
    /\ ledger # EmptyBag

\* C25: every refund entry has a spend entry of the same user and job id, and
\* a request stands before the refund insert only with its spend in the ledger.
C25_RefundHasSpend ==
    /\ \A u \in Users : \A f \in Refunds(ledger, u) :
          \E e \in Spends(ledger, u) : e.ext = f.ext
    /\ \A q \in Running(reqs, "refund") :
          /\ q.cost > 0
          /\ \E e \in Spends(ledger, q.user) : e.ext = q.job

\* one job was spent and refunded, another was spent and has no refund
C25_Witness ==
    \E e1, e2 \in Spends(ledger, "u1") :
        /\ HasEntry(ledger, "u1", "refund", e1.ext)
        /\ ~HasEntry(ledger, "u1", "refund", e2.ext)

\* the statuses a SubscriptionState may carry
StatusEnum == {"incomplete", "active", "trialing", "past_due", "canceled"}

\* C26: every user has at most one subscriptions row, and every row's status
\* is one of incomplete, active, trialing, past_due, canceled.
C26_OneRowValidStatus ==
    /\ \A u \in Users : Cardinality({row \in subs : row.user_id = u}) <= 1
    /\ \A row \in subs : row.status \in StatusEnum

\* the users who have a subscriptions row
Owners(S) == {row.user_id : row \in S}

\* C27: a user who has a subscriptions row has one after every step of the
\* webhook and the routes.
C27_RowsNeverDeleted == [][Owners(subs) \subseteq Owners(subs')]_vars

\* the deletion of u1's subscription was the last event answered, and u1's
\* row is there with status canceled
C27_Witness ==
    /\ \E h \in Answered(hooks) :
           h.status = 200 /\ h.event.type = "customer.subscription.deleted"
    /\ \E row \in subs : row.user_id = "u1" /\ row.status = "canceled"

\* C28: no user's balance, the sum of delta over the user's entries, is ever
\* negative.
C28_BalanceNonNegative == \A u \in Users : BalanceOf(ledger, u) >= 0

\* the user was granted tokens, has spent all of them, and a further spend
\* was refused
C28_Witness ==
    /\ Grants(ledger, "u1") # {} /\ Spends(ledger, "u1") # {}
    /\ BalanceOf(ledger, "u1") = 0
    /\ \E d \in Answered(reqs) : d.status = 402

\* C29: after a customer.subscription.* event is handled, the user's row
\* carries the status and the period end of the provider's subscription as it
\* is at handling time, whatever snapshot the event carries.
C29_StoredIsRefetched ==
    \A e \in SubscriptionEvents :
        getUserIdFromMetadata(e.obj) # None =>
            LET out == Handle(Store, e)
                cur == RetrieveSub(e.obj.id)
            IN \A row \in out.subs :
                  row.user_id = getUserIdFromMetadata(e.obj) =>
                      /\ row.status = cur.status
                      /\ row.current_period_end = unixToIso(cur.end)

\* the user an invoice event is about: the owner of the row stored for its
\* customer, and without such a row the metadata user id of its subscription
ResolvedUser(S, e) ==
    LET rows == IF e.customer = None THEN {} ELSE RowsByCustomer(S, e.customer)
    IN IF rows # {} THEN (CHOOSE row \in rows : TRUE).user_id
       ELSE getUserIdFromMetadata(RetrieveSub(e.subscription))

\* C30: an invoice event with a subscription is attributed to the user found
\* by the stored mapping or else by the subscription's metadata: a paid
\* invoice on a catalogued plan leaves that user's grant under the invoice id,
\* a failed one goes on to mark that user past_due.
C30_InvoiceUserResolved ==
    \A e \in PaidEvents \cup FailedEvents :
        (e.subscription # None /\ ResolvedUser(subs, e) # None) =>
            IF Route(e.type) = "paid"
            THEN getPlanByPriceId(RetrieveSub(e.subscription).price) # NoPlan
                 => HasEntry(Handle(Store, e).ledger, ResolvedUser(subs, e),
                             "monthly_grant", e.id)
            ELSE LET w == FailedResolve(subs, e, FALSE)
                 IN w.pc = "pastdue" /\ w.user = ResolvedUser(subs, e)

\* C31: a customer.subscription.* event without metadata user id whose
\* customer has a stored row is applied to that row: after it is handled the
\* row carries the subscription's id and status.
C31_SubscriptionByCustomer ==
    \A e \in SubscriptionEvents :
        ( /\ getUserIdFromMetadata(e.obj) = None
          /\ RowsByCustomer(subs, e.obj.customer) # {} )
        => LET out == Handle(Store, e)
           IN /\ out.status = 200
              /\ \E row \in RowsByCustomer(out.subs, e.obj.customer) :
                     /\ row.stripe_subscription_id = e.obj.id
                     /\ row.status \in {e.obj.status, RetrieveSub(e.obj.id).status}

\* C32: handling a paid invoice that reaches the grant step (its customer has
\* a row, its subscription a catalogued plan) is answered 200 and leaves the
\* grant in the ledger and the user's row with the status, plan and period
\* end of the subscription as the provider has it; when the grant was there
\* already the ledger is unchanged and the row is refreshed all the same.
C32_PaidRefreshesState ==
    \A e \in PaidEvents :
        LET w1 == InvoiceLookup(subs, e, FALSE)
            w2 == InvoiceRetrieve(w1, FALSE)
            cur == RetrieveSub(w1.subscriptionId)
            out == Handle(Store, e)
        IN (w1.pc = "retrieve" /\ w2.pc = "grant") =>
              /\ out.status = 200
              /\ HasEntry(out.ledger, w1.user, "monthly_grant", e.id)
              /\ HasEntry(ledger, w1.user, "monthly_grant", e.id)
                    => out.ledger = ledger
              /\ \E row \in out.subs :
                     /\ row.user_id = w1.user
                     /\ row.status = cur.status
                     /\ row.plan_id = getPlanByPriceId(cur.price).id
                     /\ row.current_period_end = unixToIso(cur.end)

\* the paid invoice was the last event answered, its grant is in the ledger,
\* and the row shows a subscription that has moved on at the provider since
\* it was created
C32_Witness ==
    /\ \E h \in Answered(hooks) :
           /\ h.status = 200 /\ Route(h.event.type) = "paid"
           /\ HasEntry(ledger, "u1", "monthly_grant", h.event.id)
    /\ Len(prov) > 1
    /\ \E row \in subs :
           /\ row.user_id = "u1" /\ row.plan_id = "pro"
           /\ row.status = prov[Len(prov)].status
           /\ row.current_period_end = unixToIso(prov[Len(prov)].end)

\* C33: of the errors a ledger insert can return only the duplicate of the
\* ledger's own key is swallowed; with any other error a top-up checkout is
\* answered 500 and an invoice delivery ends with 500 before its upsert, the
\* ledger being as it was.
C33_OnlyKeyDuplicateSwallowed ==
    /\ ~Thrown("duplicate")
    /\ \A err \in InsertFaults \ {None} : Thrown(err)
    /\ \A e \in CheckoutEvents, f \in InsertFaults \ {None} :
          TopupCheckout(e) =>
             Checkout(ledger, subs, e, f)
                = [ledger |-> ledger, subs |-> subs, status |-> 500]
    /\ \A w \in Running(hooks, "grant"), f \in InsertFaults \ {None} :
          InvoiceGrant(ledger, w, f) = [ledger |-> ledger, hook |-> HookResp(500)]

\* C34: the cost of a request is that of gemini-2.5 when the form names
\* gemini-2.5 and that of gemini-3 for gemini-3 and for a missing or invalid
\* value; the request that goes on carries this cost, and an entry the spend
\* appends is the spend of the user and job with delta minus this cost.
C34_CostFromModelVersion ==
    \A u \in Users, job \in JobIds, raw \in ModelVersionRaw :
        LET cost == IF raw = "gemini-2.5" THEN CostGemini25 ELSE CostGemini3
            r == Spend(ledger, u, job, raw, FALSE)
        IN /\ tokenCost(normalizedModelVersion(raw)) = cost
           /\ r.req.pc = "compose" => r.req.cost = cost
           /\ r.ledger # ledger =>
                 r.ledger = ledger (+) One(Entry(u, "spend", job, 0 - cost))

\* spends of both costs are in the ledger
C34_Witness ==
    \E e1, e2 \in Spends(ledger, "u1") :
        e1.delta = 0 - CostGemini3 /\ e2.delta = 0 - CostGemini25

\* net delta of the spend and refund entries of one (customer, job id)
JobNet(led, u, job) ==
    SumDelta(led, {e \in EntriesOf(led, u) :
                     e.kind \in {"spend", "refund"} /\ e.ext = job})

C37_BothPaidTypesOneGrant ==
    /\ \A t \in PaidEventTypes : Route(t) = "paid"
    /\ \A e1, e2 \in PaidEvents :
          (e1.id = e2.id /\ e1.customer = e2.customer
                          /\ e1.subscription = e2.subscription)
          => InvoiceLookup(subs, e1, FALSE) = InvoiceLookup(subs, e2, FALSE)
    /\ \A w1, w2 \in Running(hooks, "grant") :
          (w1.invoice = w2.invoice /\ (w1 # w2 \/ CopiesIn(w1, hooks) = 2))
          => LET first == InvoiceGrant(ledger, w1, None)
                 second == InvoiceGrant(first.ledger, w2, None)
                 G == {x \in BagToSet(second.ledger) :
                          x.kind = "monthly_grant" /\ x.ext = w1.invoice}
             IN /\ first.hook.pc = "upsert" /\ second.hook.pc = "upsert"
                /\ \E x \in G : G = {x} /\ x.user = w1.user
                                          /\ CopiesIn(x, second.ledger) = 1
    /\ \A u \in Users : KeyCount(ledger, u, "monthly_grant", "in_1") <= 1

\* one delivery of the invoice has granted and another stands before its
\* insert, and two more stand before the insert with nothing granted yet
C37_Witness ==
    \E w \in Running(hooks, "grant") :
        /\ w.invoice = "in_1"
        /\ \/ /\ \E v \in Running(hooks, "upsert") : v.invoice = "in_1"
              /\ KeyCount(ledger, "u1", "monthly_grant", "in_1") = 1
           \/ /\ CopiesIn(w, hooks) = 2
              /\ ~HasEntry(ledger, "u1", "monthly_grant", "in_1")

\* C38: a request is turned away with 401 when its token is missing or
\* invalid, else with 400 when the file, jobId, propertyId or action is
\* missing, else with 409 when a fresh upload names a room that exists; a
\* request turned away is answered with that status, leaves the ledger as it
\* was and does not reach the generation step.
C38_TurnedAwayBeforeSpend ==
    \A form \in Forms :
        LET st == Guards(form)
            r == TurnedAway(ledger, st)
        IN /\ st \in RejectStatuses \cup {0}
           /\ st = 401 <=> form.token # "good"
           /\ st = 400 <=> (form.token = "good" /\ form.missing # None)
           /\ st = 409 <=> ( /\ form.token = "good" /\ form.missing = None
                              /\ ~form.isContinuation /\ form.room = "taken" )
           /\ st # 0 => /\ r.ledger = ledger
                         /\ r.req = RoomResp(st, 0, "rejected")
                         /\ r.req.pc = "done"

\* requests were turned away with 409 and with 401 or 400 while the customer
\* had tokens to spend and a job spent
C38_Witness ==
    /\ RoomResp(409, 0, "rejected") \in Answered(reqs)
    /\ \E st \in {401, 400} : RoomResp(st, 0, "rejected") \in Answered(reqs)
    /\ BalanceOf(ledger, "u1") >= CostGemini25
    /\ Spends(ledger, "u1") # {}

\* the checkout sessions the routes have created
Sessions(b) == {c \in Answered(b) : c.status = 200}

\* C39: once every request has been answered, each checkout session created
\* is bound to the provider customer stored in its user's row, and a paid
\* invoice of the session's customer is resolved, by customer id, to the user.
C39_SessionsBoundToStored ==
    (\A c \in BagToSet(reqs) : c.pc = "done")
    => \A c \in Sessions(reqs) :
          /\ \E row \in subs : /\ row.user_id = c.user
                                /\ row.stripe_customer_id = c.customer
          /\ InvoiceLookup(subs, InvoiceEvent("invoice.paid", "in_1",
                                              c.customer, "sub1"), FALSE).user = c.user

====
